---- MODULE Spec2Model ----
(***************************************************************************)
(* Model of ota-server/update-version.py: the OTA manifest builder.        *)
(*                                                                         *)
(* Strings are strings of characters: paths, flag texts and the text of    *)
(* version.yaml are split, joined and overwritten character by character.  *)
(* File contents are strings too, one character per byte.  A run of the    *)
(* script is a process that walks main() step by step, one step per file   *)
(* system call that another run can observe; two runs exist so that a run  *)
(* can meet what an earlier run left on disk (Spec) or race against        *)
(* another run (SpecConc).                                                 *)
(***************************************************************************)
EXTENDS Integers, Sequences, FiniteSets, TLC

\* ------------------------------------------------------------------------
\* Bounds
\* ------------------------------------------------------------------------
\* Block size of the streaming hash (4096 in the code; any size must give
\* the same digest).
ChunkSize == 2

Runs == {1, 2}

\* ------------------------------------------------------------------------
\* Python values: None and str
\* ------------------------------------------------------------------------
PyNone == [t |-> "none", v |-> ""]
PyStr(s) == [t |-> "str", v |-> s]

\* bool(x) for None / str
Truthy(x) == x.t = "str" /\ x.v # ""

\* x or y
PyOr(x, y) == IF Truthy(x) THEN x ELSE y

\* str(x) as used by an f-string
Fmt(x) == IF x.t = "none" THEN "None" ELSE x.v

\* dict.get(key, default) on a JSON object / dict modelled as a record
Get(d, k, default) == IF k \in DOMAIN d THEN d[k] ELSE default

\* ------------------------------------------------------------------------
\* Strings
\* ------------------------------------------------------------------------
\* str.split(sep) for a separator of one character: the parts between the
\* occurrences of sep, always at least one part
Split(s, sep) ==
  LET cuts == {i \in 1..Len(s) : SubSeq(s, i, i) = sep}
      n == Cardinality(cuts)
      Cut(k) == IF k = 0 THEN 0
                ELSE IF k = n + 1 THEN Len(s) + 1
                ELSE CHOOSE i \in cuts : Cardinality({j \in cuts : j < i}) = k - 1
  IN [k \in 1..(n + 1) |-> SubSeq(s, Cut(k - 1) + 1, Cut(k) - 1)]

RECURSIVE StripSlashes(_)
\* pathlib drops trailing separators
StripSlashes(p) ==
  IF p # "" /\ SubSeq(p, Len(p), Len(p)) = "/"
    THEN StripSlashes(SubSeq(p, 1, Len(p) - 1))
    ELSE p

\* Path(p).name: the last component
PathName(p) ==
  LET parts == Split(StripSlashes(p), "/") IN parts[Len(parts)]

\* a / b
Join(a, b) == a \o "/" \o b

RECURSIVE JoinLines(_)
\* '\n'.join(lines) + '\n'
JoinLines(lines) ==
  IF Len(lines) = 1 THEN lines[1] \o "\n"
  ELSE lines[1] \o "\n" \o JoinLines(Tail(lines))

\* ------------------------------------------------------------------------
\* Environment defaults (module level)
\* ------------------------------------------------------------------------
APPS_DIR == "apps"
DefaultBaseUrl == "http://localhost:3000"

\* ------------------------------------------------------------------------
\* The disk before any run: source binaries and JSON config files
\* ------------------------------------------------------------------------
File(bytes, mode) == [kind |-> "file", bytes |-> bytes, mode |-> mode]
Dir == [kind |-> "dir", bytes |-> "", mode |-> 755]

SourceTree ==
  ("d1/app" :> File("abc", 644)) @@
  ("d2/app" :> File("d", 755)) @@
  ("d1/lib" :> File("ef", 600)) @@
  ("d1/pkg" :> Dir)

\* json.load results (or the reason there is none), by config path
JObj(o) == [t |-> "obj", v |-> o]
JList(l) == [t |-> "list", v |-> l]

ConfigDisk ==
  ("ok.json" :> JObj([files |-> JList(<<
        [path |-> PyStr("d1/lib"), name |-> PyStr("libx"), target |-> PyStr("/opt/one")],
        [path |-> PyStr("d1/app")] >>),
      restart_cmd |-> PyStr("svc restart")])) @@
  ("empty_rc.json" :> JObj([files |-> JList(<<
        [path |-> PyStr("d1/app"), name |-> PyStr("one")] >>),
      restart_cmd |-> PyStr("")])) @@
  ("null_rc.json" :> JObj([files |-> JList(<<
        [path |-> PyStr("d1/app"), target |-> PyStr("")] >>),
      restart_cmd |-> PyNone])) @@
  ("no_rc.json" :> JObj([files |-> JList(<<
        [path |-> PyStr("d1/app"), name |-> PyStr("one"), target |-> PyStr("/opt/one")] >>)])) @@
  ("no_files.json" :> JObj([restart_cmd |-> PyStr("x")])) @@
  ("str_files.json" :> JObj([files |-> PyStr("x")])) @@
  ("empty_files.json" :> JObj([files |-> JList(<< >>)])) @@
  ("no_path.json" :> JObj([files |-> JList(<<
        [path |-> PyStr("d1/lib")],
        [name |-> PyStr("x"), target |-> PyStr("/opt/one")],
        [path |-> PyStr("d1/app")] >>)])) @@
  ("top_list.json" :> JList(<< >>)) @@
  ("top_num.json" :> [t |-> "num", v |-> <<>>]) @@
  ("bad.json" :> [t |-> "malformed", v |-> <<>>])

\* ------------------------------------------------------------------------
\* Command lines (argparse results) and environments
\* ------------------------------------------------------------------------
\* stdout is the console's encoding: "utf-8", or "ascii" (PYTHONIOENCODING=ascii)
Args(app, ver, appOpt, verOpt, fileFlags, config, baseUrl, restartEnv, stdout) ==
  [app_name |-> app, version |-> ver, app_name_opt |-> appOpt, version_opt |-> verOpt,
   files |-> fileFlags, config |-> config, BASE_URL |-> baseUrl, RESTART_CMD |-> restartEnv,
   stdout |-> stdout]

Flags(fileFlags, restartEnv) ==
  Args(PyStr("myapp"), PyStr("1.0"), PyNone, PyNone, fileFlags, PyNone,
       DefaultBaseUrl, restartEnv, "utf-8")

Cfg(name, fileFlags, restartEnv) ==
  Args(PyStr("myapp"), PyStr("1.0"), PyNone, PyNone, fileFlags, PyStr(name),
       DefaultBaseUrl, restartEnv, "utf-8")

Inputs == {
  Flags(<<"d1/app">>, ""),
  Flags(<<"d1/app:one:/opt/one", "d2/app:two">>, "foo"),
  Flags(<<"d1/lib::/opt/one", "d1/app:one:/opt/one:true">>, ""),
  Flags(<<"d1/lib", "d1/gone", "d1/app">>, ""),
  Flags(<<"d1/app:one:/opt/one", "d2/app:two", "d1/gone">>, ""),
  Flags(<<"d1/lib", "d1/pkg">>, ""),
  Flags(<< >>, "foo"),
  Args(PyStr("other"), PyStr("0.1"), PyStr("myapp"), PyStr("2.0"),
       <<"d2/app:two">>, PyStr("ok.json"), DefaultBaseUrl, "foo", "utf-8"),
  Args(PyStr("other"), PyStr("1.0"), PyNone, PyNone,
       <<"d2/app:two">>, PyNone, "https://ota.example", "", "utf-8"),
  Args(PyStr("myapp"), PyNone, PyNone, PyStr(""), <<"d1/app">>, PyNone, DefaultBaseUrl, "",
       "utf-8"),
  Args(PyNone, PyNone, PyStr(""), PyStr("1.0"), <<"d1/app">>, PyNone, DefaultBaseUrl, "",
       "utf-8"),
  Args(PyStr("myapp"), PyStr("1.0"), PyNone, PyNone, <<"d2/app">>, PyNone, DefaultBaseUrl, "",
       "ascii"),
  Args(PyStr("myapp"), PyStr("1.0"), PyNone, PyNone, <<"d1/lib", "d1/gone">>, PyNone,
       DefaultBaseUrl, "", "ascii"),
  Cfg("empty_rc.json", << >>, "foo"),
  Cfg("null_rc.json", << >>, "foo"),
  Cfg("no_rc.json", << >>, "foo"),
  Cfg("no_rc.json", << >>, ""),
  Cfg("no_files.json", << >>, ""),
  Cfg("str_files.json", << >>, ""),
  Cfg("empty_files.json", <<"d1/app">>, ""),
  Cfg("no_path.json", << >>, ""),
  Cfg("top_list.json", << >>, ""),
  Cfg("top_num.json", << >>, ""),
  Cfg("bad.json", << >>, ""),
  Cfg("missing.json", <<"d1/app">>, ""),
  Args(PyStr("myapp"), PyStr("1.0"), PyNone, PyNone, <<"d2/app:two">>, PyStr(""),
       DefaultBaseUrl, "", "utf-8")
}

\* ------------------------------------------------------------------------
\* File system
\* ------------------------------------------------------------------------
Exists(f, p) == p \in DOMAIN f

\* f with path p holding entry e
Put(f, p, e) == [q \in DOMAIN f \cup {p} |-> IF q = p THEN e ELSE f[q]]

\* Path.mkdir(parents=True, exist_ok=True), one level
Mkdir(f, p) == IF Exists(f, p) THEN f ELSE Put(f, p, Dir)

AppDir(app) == Join(APPS_DIR, app)
FilesDir(app) == Join(AppDir(app), "files")
StagedPath(app, base) == Join(FilesDir(app), base)
ManifestPath(app) == Join(AppDir(app), "version.yaml")

\* an open for writing that creates the file but keeps what an existing one holds
OpenedKeeping(f, p) == IF Exists(f, p) THEN f ELSE Put(f, p, File("", 644))

\* open(p, 'w' / 'wb'): create the file empty, or cut an existing one to length 0
Truncated(f, p) == Put(f, p, File("", IF Exists(f, p) THEN f[p].mode ELSE 644))

\* O_APPEND-style write (not what the code does): data lands after what is there
OverlayAppend(old, data) == old \o data

\* write(data) at offset 0 of a file whose bytes are old: the bytes beyond the data stay
Overlay(old, data) == data \o SubSeq(old, Len(data) + 1, Len(old))

\* f.read(n) at offset pos of a file whose bytes are bytes: at most n bytes, none at or
\* beyond the end
ReadAt(bytes, pos, n) ==
  SubSeq(bytes, pos + 1, IF pos + n < Len(bytes) THEN pos + n ELSE Len(bytes))

\* ------------------------------------------------------------------------
\* calculate_sha256
\* ------------------------------------------------------------------------
\* the bytes that occur in the source files
ByteValue == ("a" :> 1) @@ ("b" :> 2) @@ ("c" :> 3) @@ ("d" :> 4) @@ ("e" :> 5) @@ ("f" :> 6)

RECURSIVE Sha256Update(_, _)
\* sha256_hash.update(block): an injective running digest
Sha256Update(h, block) ==
  IF block = "" THEN h
  ELSE Sha256Update(h * 16 + ByteValue[Head(block)], Tail(block))

HexDigits == <<"0", "1", "2", "3", "4", "5", "6", "7", "8", "9", "a", "b", "c", "d", "e", "f">>

RECURSIVE Hex(_)
\* lower-case hexadecimal text of a number
Hex(n) ==
  IF n < 16 THEN HexDigits[n + 1]
  ELSE Hex(n \div 16) \o HexDigits[(n % 16) + 1]

RECURSIVE ZeroPadded(_, _)
ZeroPadded(s, width) == IF Len(s) >= width THEN s ELSE ZeroPadded("0" \o s, width)

\* hexdigest(): 64 hexadecimal characters
HexDigest(h) == ZeroPadded(Hex(h), 64)

RECURSIVE HashBlocks(_, _, _)
\* for byte_block in iter(lambda: f.read(4096), b''), on a file nobody else writes
HashBlocks(h, bytes, pos) ==
  LET block == ReadAt(bytes, pos, ChunkSize)
  IN IF block = "" THEN h ELSE HashBlocks(Sha256Update(h, block), bytes, pos + Len(block))

\* calculate_sha256 on a file nobody else writes
calculate_sha256(f, file_path) == HexDigest(HashBlocks(0, f[file_path].bytes, 0))

\* ------------------------------------------------------------------------
\* Input resolution (main, lines 136-180)
\* ------------------------------------------------------------------------
AppName(a) == PyOr(a.app_name_opt, a.app_name)
Version(a) == PyOr(a.version_opt, a.version)

\* one --file flag: path[:name[:target[:restart]]]; the restart part is parsed and dropped
ParseFileSpec(file_spec) ==
  LET parts == Split(file_spec, ":")
      file_path == parts[1]
  IN [path |-> PyStr(file_path),
      name |-> PyStr(IF Len(parts) > 1 THEN parts[2] ELSE PathName(file_path)),
      target |-> PyStr(IF Len(parts) > 2 THEN parts[3] ELSE "")]

ParseFlags(flags) == [k \in 1..Len(flags) |-> ParseFileSpec(flags[k])]

Resolution(err, fileList, rc) == [err |-> err, files |-> fileList, restart_cmd |-> rc]

\* the body of the try block reading --config
LoadConfig(path) ==
  LET c == IF path \in DOMAIN ConfigDisk THEN ConfigDisk[path] ELSE [t |-> "missing", v |-> <<>>]
  IN IF c.t \in {"missing", "malformed", "num"}
       THEN Resolution("Failed to read config file", <<>>, PyNone)
     ELSE IF c.t = "obj" /\ "files" \in DOMAIN c.v /\ c.v.files.t = "list"
       THEN Resolution("", c.v.files.v,
                       IF "restart_cmd" \in DOMAIN c.v THEN c.v.restart_cmd ELSE PyNone)
     ELSE Resolution("Invalid config file format: files array is required", <<>>, PyNone)

\* a resolution that also takes the --file flags when a config is given
ResolveFilesCombined(a) ==
  IF Truthy(a.config)
    THEN LET c == LoadConfig(a.config.v)
         IN IF c.err = "" THEN Resolution("", c.files \o ParseFlags(a.files), c.restart_cmd) ELSE c
    ELSE Resolution("", ParseFlags(a.files), PyNone)

\* if args.config: ... elif args.files: ...
ResolveFiles(a) ==
  IF Truthy(a.config) THEN LoadConfig(a.config.v)
  ELSE Resolution("", ParseFlags(a.files), PyNone)

\* ------------------------------------------------------------------------
\* Manifest rendering
\* ------------------------------------------------------------------------
FileLines(file, version) ==
  << "  - name: \"" \o Fmt(file.name) \o "\"",
     "    url: \"" \o file.url \o "\"",
     "    sha256: \"" \o file.sha256 \o "\"",
     "    target: \"" \o Fmt(file.target) \o "\"" >>
  \o (IF Truthy(file.version) /\ file.version # version
        THEN << "    version: \"" \o Fmt(file.version) \o "\"" >>
        ELSE << >>)

RECURSIVE AllFileLines(_, _)
AllFileLines(fileConfigs, version) ==
  IF fileConfigs = <<>> THEN <<>>
  ELSE FileLines(Head(fileConfigs), version) \o AllFileLines(Tail(fileConfigs), version)

\* the text of version.yaml
generate_yaml_config(fileConfigs, version, app_name, restart_cmd) ==
  JoinLines(<< "version: \"" \o Fmt(version) \o "\"", "files:" >>
            \o AllFileLines(fileConfigs, version)
            \o (IF Truthy(restart_cmd)
                  THEN << "restart_cmd: '" \o Fmt(restart_cmd) \o "'" >>
                  ELSE << >>))

\* restart_cmd_from_config if it is not None, else the environment's RESTART_CMD
ResolveRestartCmd(rc, env) == IF rc.t # "none" THEN rc ELSE PyStr(env)

\* ------------------------------------------------------------------------
\* Per-file steps of main's loop (lines 191-214)
\* ------------------------------------------------------------------------
\* the spec taken by the k-th iteration, walking the list backwards
SpecAtReversed(fileList, k) == fileList[Len(fileList) - k + 1]

\* the spec taken by the k-th iteration of `for file in files`
SpecAt(fileList, k) == fileList[k]

\* the default target built from the staged file's name instead of the entry's name
DefaultTargetFromFile(file, file_name) == PyStr("/usr/local/bin/" \o file_name)

\* f'/usr/local/bin/{file.get("name", file_name)}'
DefaultTarget(file, file_name) ==
  PyStr("/usr/local/bin/" \o Fmt(Get(file, "name", PyStr(file_name))))

\* file_configs with the new entry put first
PrependConfig(fileConfigs, entry) == <<entry>> \o fileConfigs

\* file_configs.append(entry)
AppendConfig(fileConfigs, entry) == Append(fileConfigs, entry)

FileConfig(file, file_name, sha256, a) ==
  LET given == Get(file, "target", PyNone)
  IN [name |-> Get(file, "name", PyStr(file_name)),
      url |-> a.BASE_URL \o "/ota/" \o Fmt(AppName(a)) \o "/files/" \o file_name,
      sha256 |-> sha256,
      target |-> IF Truthy(given) THEN given ELSE DefaultTarget(file, file_name),
      version |-> Version(a)]

\* ------------------------------------------------------------------------
\* Console
\* ------------------------------------------------------------------------
Log(level, message) == [ts |-> TRUE, level |-> level, msg |-> message]
Stdout(message) == [ts |-> FALSE, level |-> "", msg |-> message]
Traceback(exc) == [ts |-> FALSE, level |-> "Traceback", msg |-> exc]

\* ------------------------------------------------------------------------
\* State
\* ------------------------------------------------------------------------
VARIABLES
  args,                     \* per run: the command line and environment
  pc,                       \* per run: where main() stands
  files,                    \* per run: the resolved file list
  restart_cmd_from_config,  \* per run
  idx,                      \* per run: iteration of `for file in files` (from 1)
  sha256_hash,              \* per run: the running digest of calculate_sha256
  hash_pos,                 \* per run: offset of calculate_sha256's open file
  file_configs,             \* per run
  yaml_content,             \* per run: the text handed to write_text
  out,                      \* per run: console lines, in order
  exit_code,                \* per run: -1 while running
  fs,                       \* the disk: path -> entry
  fs_at_start,              \* per run: the disk when the run began
  copied,                   \* per run: source paths copied so far, in order
  writes,                   \* runs in the order their manifest write completed
  writes_at_open            \* per run: what writes was when the run opened version.yaml

vars == <<args, pc, files, restart_cmd_from_config, idx, sha256_hash, hash_pos, file_configs,
          yaml_content, out, exit_code, fs, fs_at_start, copied, writes, writes_at_open>>

Init ==
  /\ args \in [Runs -> Inputs]
  /\ pc = [r \in Runs |-> "main"]
  /\ files = [r \in Runs |-> <<>>]
  /\ restart_cmd_from_config = [r \in Runs |-> PyNone]
  /\ idx = [r \in Runs |-> 1]
  /\ sha256_hash = [r \in Runs |-> 0]
  /\ hash_pos = [r \in Runs |-> 0]
  /\ file_configs = [r \in Runs |-> <<>>]
  /\ yaml_content = [r \in Runs |-> ""]
  /\ out = [r \in Runs |-> <<>>]
  /\ exit_code = [r \in Runs |-> -1]
  /\ fs = SourceTree
  /\ fs_at_start = [r \in Runs |-> SourceTree]
  /\ copied = [r \in Runs |-> <<>>]
  /\ writes = <<>>
  /\ writes_at_open = [r \in Runs |-> <<>>]

\* the process ends with exit status 1 after printing the given lines
Fail(r, lines) ==
  /\ out' = [out EXCEPT ![r] = @ \o lines]
  /\ exit_code' = [exit_code EXCEPT ![r] = 1]
  /\ pc' = [pc EXCEPT ![r] = "exited"]

\* error(): log at ERROR level, then sys.exit(1)
error(r, message) == Fail(r, << Log("ERROR", message) >>)

\* an exception nobody catches: traceback on stderr, exit status 1
Uncaught(r, exc) == Fail(r, << Traceback(exc) >>)

CurrentFile(r) == SpecAt(files[r], idx[r])
CurrentSource(r) == CurrentFile(r).path.v
CurrentStaged(r) == StagedPath(Fmt(AppName(args[r])), PathName(CurrentSource(r)))

\* ------------------------------------------------------------------------
\* main, lines 23 and 134-187: start up, validate, resolve the inputs
\* ------------------------------------------------------------------------
MainStart(r) ==
  /\ pc[r] = "main"
  /\ LET a == args[r]
         res == ResolveFiles(a)
     IN /\ fs_at_start' = [fs_at_start EXCEPT ![r] = fs]
        /\ fs' = Mkdir(fs, APPS_DIR)
        /\ IF ~Truthy(AppName(a))
             THEN /\ error(r, "App name is required. Use --app or provide as first argument.")
                  /\ UNCHANGED <<files, restart_cmd_from_config>>
           ELSE IF ~Truthy(Version(a))
             THEN /\ error(r, "Version is required. Use --version or provide as second argument.")
                  /\ UNCHANGED <<files, restart_cmd_from_config>>
           ELSE IF res.err # ""
             THEN /\ error(r, res.err)
                  /\ UNCHANGED <<files, restart_cmd_from_config>>
           ELSE IF Len(res.files) = 0
             THEN /\ error(r, "At least one file is required. Use --file or --config.")
                  /\ UNCHANGED <<files, restart_cmd_from_config>>
           ELSE /\ files' = [files EXCEPT ![r] = res.files]
                /\ restart_cmd_from_config' = [restart_cmd_from_config EXCEPT ![r] = res.restart_cmd]
                /\ out' = [out EXCEPT ![r] = @ \o << Log("INFO", "Starting version update..."),
                                                     Log("INFO", "App name"),
                                                     Log("INFO", "Version"),
                                                     Log("INFO", "Files"),
                                                     Log("INFO", "Apps directory"),
                                                     Log("INFO", "Base URL") >>]
                /\ pc' = [pc EXCEPT ![r] = "loop"]
                /\ UNCHANGED exit_code
  /\ UNCHANGED <<args, idx, sha256_hash, hash_pos, file_configs, yaml_content, copied, writes,
                 writes_at_open>>

\* ------------------------------------------------------------------------
\* main, lines 191-193 and copy_binary, lines 52-60: next spec, or leave the loop
\* ------------------------------------------------------------------------
LoopHead(r) ==
  /\ pc[r] = "loop"
  /\ IF idx[r] > Len(files[r])
       THEN /\ pc' = [pc EXCEPT ![r] = "write_open"]
            /\ UNCHANGED <<out, exit_code, fs>>
     ELSE IF "path" \notin DOMAIN CurrentFile(r)
       THEN /\ error(r, "File path is required for file")
            /\ UNCHANGED fs
     ELSE IF ~Exists(fs, CurrentSource(r))
       THEN /\ error(r, "Binary file not found")
            /\ UNCHANGED fs
     ELSE /\ fs' = Mkdir(Mkdir(fs, AppDir(Fmt(AppName(args[r])))), FilesDir(Fmt(AppName(args[r]))))
          /\ out' = [out EXCEPT ![r] = Append(@, Log("INFO", "Created files directory for app"))]
          /\ pc' = [pc EXCEPT ![r] = "copy_open"]
          /\ UNCHANGED exit_code
  /\ UNCHANGED <<args, files, restart_cmd_from_config, idx, sha256_hash, hash_pos, file_configs,
                 yaml_content, fs_at_start, copied, writes,
                 writes_at_open>>

\* ------------------------------------------------------------------------
\* copy_binary, line 65, first half: shutil.copy2 opens the source for reading
\* and the staged file for writing (which empties it)
\* ------------------------------------------------------------------------
CopyOpen(r) ==
  /\ pc[r] = "copy_open"
  /\ IF fs[CurrentSource(r)].kind = "dir"
       THEN /\ Uncaught(r, "IsADirectoryError")
            /\ UNCHANGED fs
       ELSE /\ fs' = Truncated(fs, CurrentStaged(r))
            /\ pc' = [pc EXCEPT ![r] = "copy_write"]
            /\ UNCHANGED <<out, exit_code>>
  /\ UNCHANGED <<args, files, restart_cmd_from_config, idx, sha256_hash, hash_pos, file_configs,
                 yaml_content, fs_at_start, copied, writes,
                 writes_at_open>>

\* ------------------------------------------------------------------------
\* copy_binary, lines 65-72: the bytes and the metadata are copied, the staged
\* file is made executable; main, lines 197-203: the default target's notice;
\* calculate_sha256, lines 43-44: a fresh digest, the staged file opened at 0
\* ------------------------------------------------------------------------
CopyWrite(r) ==
  /\ pc[r] = "copy_write"
  /\ fs' = Put(fs, CurrentStaged(r),
               File(Overlay(fs[CurrentStaged(r)].bytes, fs[CurrentSource(r)].bytes), 755))
  /\ copied' = [copied EXCEPT ![r] = Append(@, CurrentSource(r))]
  /\ out' = [out EXCEPT ![r] =
               @ \o << Log("INFO", "Copied binary to") >>
                 \o (IF Truthy(Get(CurrentFile(r), "target", PyNone)) THEN << >>
                     ELSE << Log("INFO", "No target specified, using default") >>)]
  /\ sha256_hash' = [sha256_hash EXCEPT ![r] = 0]
  /\ hash_pos' = [hash_pos EXCEPT ![r] = 0]
  /\ pc' = [pc EXCEPT ![r] = "hash"]
  /\ UNCHANGED <<args, files, restart_cmd_from_config, idx, file_configs, yaml_content,
                 exit_code, fs_at_start, writes,
                 writes_at_open>>

\* the next f.read(4096) of run r's hash loop
NextBlock(r) == ReadAt(fs[CurrentStaged(r)].bytes, hash_pos[r], ChunkSize)

\* ------------------------------------------------------------------------
\* calculate_sha256, lines 45-46: one read that returns bytes, fed to the digest
\* ------------------------------------------------------------------------
HashRead(r) ==
  /\ pc[r] = "hash"
  /\ NextBlock(r) # ""
  /\ sha256_hash' = [sha256_hash EXCEPT ![r] = Sha256Update(@, NextBlock(r))]
  /\ hash_pos' = [hash_pos EXCEPT ![r] = @ + Len(NextBlock(r))]
  /\ UNCHANGED <<args, pc, files, restart_cmd_from_config, idx, file_configs, yaml_content, out,
                 exit_code, fs, fs_at_start, copied, writes,
                 writes_at_open>>

\* ------------------------------------------------------------------------
\* calculate_sha256, lines 45-47: the read that returns nothing ends the loop;
\* main, lines 206-214: the manifest entry
\* ------------------------------------------------------------------------
HashStep(r) ==
  /\ pc[r] = "hash"
  /\ NextBlock(r) = ""
  /\ LET file == CurrentFile(r)
         file_name == PathName(CurrentStaged(r))
         sha256 == HexDigest(sha256_hash[r])
     IN file_configs' = [file_configs EXCEPT ![r] =
                           AppendConfig(@, FileConfig(file, file_name, sha256, args[r]))]
  /\ idx' = [idx EXCEPT ![r] = @ + 1]
  /\ pc' = [pc EXCEPT ![r] = "loop"]
  /\ UNCHANGED <<args, files, restart_cmd_from_config, sha256_hash, hash_pos, yaml_content, out,
                 exit_code, fs, fs_at_start, copied, writes,
                 writes_at_open>>

\* ------------------------------------------------------------------------
\* main, lines 217-227: resolve restart_cmd, render, open version.yaml for writing
\* ------------------------------------------------------------------------
WriteOpen(r) ==
  /\ pc[r] = "write_open"
  /\ LET a == args[r]
         app == Fmt(AppName(a))
         restart_cmd == ResolveRestartCmd(restart_cmd_from_config[r], a.RESTART_CMD)
     IN /\ yaml_content' = [yaml_content EXCEPT ![r] =
                              generate_yaml_config(file_configs[r], Version(a), AppName(a), restart_cmd)]
        /\ fs' = Truncated(Mkdir(fs, AppDir(app)), ManifestPath(app))
  /\ writes_at_open' = [writes_at_open EXCEPT ![r] = writes]
  /\ pc' = [pc EXCEPT ![r] = "write_data"]
  /\ UNCHANGED <<args, files, restart_cmd_from_config, idx, sha256_hash, hash_pos, file_configs,
                 out, exit_code, fs_at_start, copied, writes>>

\* ------------------------------------------------------------------------
\* main, lines 227-243: the text is written at offset 0 and the file closed;
\* then the summary, whose first line holds a character an ascii console
\* cannot encode: print raises inside the try block and the run ends through
\* error(); otherwise exit 0
\* ------------------------------------------------------------------------
WriteData(r) ==
  /\ pc[r] = "write_data"
  /\ LET p == ManifestPath(Fmt(AppName(args[r])))
     IN fs' = Put(fs, p, File(Overlay(fs[p].bytes, yaml_content[r]), fs[p].mode))
  /\ writes' = Append(writes, r)
  /\ IF args[r].stdout = "ascii"
       THEN Fail(r, << Log("INFO", "Configuration updated"),
                       Log("ERROR", "Failed to generate config") >>)
       ELSE /\ out' = [out EXCEPT ![r] = @ \o << Log("INFO", "Configuration updated"),
                                                 Stdout("Configuration summary"),
                                                 Stdout("Version update completed successfully!") >>]
            /\ exit_code' = [exit_code EXCEPT ![r] = 0]
            /\ pc' = [pc EXCEPT ![r] = "exited"]
  /\ UNCHANGED <<args, files, restart_cmd_from_config, idx, sha256_hash, hash_pos, file_configs,
                 yaml_content, fs_at_start, copied,
                 writes_at_open>>

\* ------------------------------------------------------------------------
\* Specifications
\* ------------------------------------------------------------------------
\* the tool's usage constraint: one invocation at a time
Turn(r) == \A q \in Runs : q < r => pc[q] = "exited"

Next ==
  \E r \in Runs :
    \/ Turn(r) /\ MainStart(r)
    \/ Turn(r) /\ LoopHead(r)
    \/ Turn(r) /\ CopyOpen(r)
    \/ Turn(r) /\ CopyWrite(r)
    \/ Turn(r) /\ HashRead(r)
    \/ Turn(r) /\ HashStep(r)
    \/ Turn(r) /\ WriteOpen(r)
    \/ Turn(r) /\ WriteData(r)

\* runs one after the other
Spec == Init /\ [][Next]_vars

NextConc ==
  \E r \in Runs :
    \/ MainStart(r)
    \/ LoopHead(r)
    \/ CopyOpen(r)
    \/ CopyWrite(r)
    \/ HashRead(r)
    \/ HashStep(r)
    \/ WriteOpen(r)
    \/ WriteData(r)

\* runs racing each other
SpecConc == Init /\ [][NextConc]_vars

\* ------------------------------------------------------------------------
\* Vocabulary of the properties
\* ------------------------------------------------------------------------
Apps == {"myapp", "other"}

App(r) == Fmt(AppName(args[r]))
Succeeded(r) == pc[r] = "exited" /\ exit_code[r] = 0
Failed(r) == pc[r] = "exited" /\ exit_code[r] = 1
Wrote(r) == \E i \in 1..Len(writes) : writes[i] = r

\* no later run has started: the disk is as run r left (or is leaving) it
Latest(r) == \A q \in Runs : q > r => pc[q] = "main"
JustSucceeded(r) == Succeeded(r) /\ Latest(r)

\* the text of the version.yaml of run r's app
Manifest(r) == fs[ManifestPath(App(r))].bytes

\* the lines of a text that ends with a newline
LinesOf(text) == LET parts == Split(text, "\n") IN SubSeq(parts, 1, Len(parts) - 1)

StartsWith(line, prefix) ==
  Len(line) >= Len(prefix) /\ SubSeq(line, 1, Len(prefix)) = prefix

\* line j (1 name, 2 url, 3 sha256, 4 target) of the k-th entry of the files block
EntryLine(m, k, j) == LinesOf(m)[2 + 4 * (k - 1) + j]
EntryLines(m, k) == SubSeq(LinesOf(m), 2 + 4 * (k - 1) + 1, 2 + 4 * k)
EntryCount(m) ==
  Cardinality({i \in 1..Len(LinesOf(m)) : StartsWith(LinesOf(m)[i], "  - name: \"")})
Quoted(label, text) == label \o text \o "\""
Unquote(line, label) == SubSeq(line, Len(label) + 1, Len(line) - 1)
HasRestartLine(m) == \E i \in 1..Len(LinesOf(m)) : StartsWith(LinesOf(m)[i], "restart_cmd: '")

\* the digest of a whole byte string, hashed in one piece
WholeFileDigest(bytes) == HexDigest(Sha256Update(0, bytes))

\* the version.yaml entry of an app on a disk
ManifestEntry(f, app) ==
  IF Exists(f, ManifestPath(app)) THEN f[ManifestPath(app)]
  ELSE [kind |-> "absent", bytes |-> "", mode |-> 0]

ManifestsUnchanged(r) ==
  \A app \in Apps : ManifestEntry(fs, app) = ManifestEntry(fs_at_start[r], app)

\* the file specs as the user wrote them
ConfigArray(a) == ConfigDisk[a.config.v].v.files.v
RawCount(a) == IF Truthy(a.config) THEN Len(ConfigArray(a)) ELSE Len(a.files)
RawPath(a, k) ==
  IF Truthy(a.config) THEN ConfigArray(a)[k].path.v ELSE Split(a.files[k], ":")[1]
RawNameOmitted(a, k) ==
  IF Truthy(a.config) THEN "name" \notin DOMAIN ConfigArray(a)[k]
  ELSE Len(Split(a.files[k], ":")) = 1
RawTarget(a, k) ==
  IF Truthy(a.config) THEN Get(ConfigArray(a)[k], "target", PyNone)
  ELSE LET parts == Split(a.files[k], ":")
       IN IF Len(parts) > 2 THEN PyStr(parts[3]) ELSE PyNone

\* ------------------------------------------------------------------------
\* C1
\* ------------------------------------------------------------------------
\* C1: when a run has just ended successfully, every entry of the manifest it
\* wrote has the url of the staged path of its source's base name, and a
\* sha256 that is the digest of the bytes now stored at that staged path, which
\* is also the digest of the entry's own source file.
C1_ShaOfStagedAndSource ==
  \A r \in Runs : JustSucceeded(r) =>
    \A k \in 1..Len(files[r]) :
      LET src == files[r][k].path.v
          staged == StagedPath(App(r), PathName(src))
      IN /\ EntryLine(Manifest(r), k, 2) =
              Quoted("    url: \"", args[r].BASE_URL \o "/ota/" \o App(r)
                                      \o "/files/" \o PathName(src))
         /\ EntryLine(Manifest(r), k, 3) =
              Quoted("    sha256: \"", WholeFileDigest(fs[staged].bytes))
         /\ WholeFileDigest(fs[staged].bytes) = WholeFileDigest(fs[src].bytes)

\* ------------------------------------------------------------------------
\* C2
\* ------------------------------------------------------------------------
\* the four lines the k-th spec of run r gives rise to
ExpectedEntryLines(a, file) ==
  FileLines(FileConfig(file, PathName(file.path.v),
                       WholeFileDigest(SourceTree[file.path.v].bytes), a), Version(a))

\* C2: the manifest of a run that has just ended successfully has exactly one
\* entry per file spec given (--file flags or the config's files array), and
\* its k-th entry is the one made from the k-th spec.
C2_OneEntryPerSpecInOrder ==
  \A r \in Runs : JustSucceeded(r) =>
    /\ Len(files[r]) = RawCount(args[r])
    /\ EntryCount(Manifest(r)) = Len(files[r])
    /\ Len(LinesOf(Manifest(r))) =
         2 + 4 * Len(files[r]) + (IF HasRestartLine(Manifest(r)) THEN 1 ELSE 0)
    /\ \A k \in 1..Len(files[r]) :
         /\ RawPath(args[r], k) = files[r][k].path.v
         /\ EntryLines(Manifest(r), k) = ExpectedEntryLines(args[r], files[r][k])

\* a successful run of at least two specs whose entries differ
C2_Witness ==
  \E r \in Runs :
    /\ JustSucceeded(r)
    /\ Len(files[r]) >= 2
    /\ EntryLines(Manifest(r), 1) # EntryLines(Manifest(r), 2)

\* ------------------------------------------------------------------------
\* C3
\* ------------------------------------------------------------------------
\* C3: a run that ends in failure leaves every version.yaml as it was when the
\* run began, and a version.yaml differs from what it was at the start of the
\* run only once every file spec has been staged and hashed.
C3_NoPartialManifest ==
  \A r \in Runs : (Latest(r) /\ pc[r] # "main") =>
    /\ Failed(r) => ManifestsUnchanged(r)
    /\ ~ManifestsUnchanged(r) =>
         /\ pc[r] \in {"write_data", "exited"}
         /\ Len(files[r]) > 0
         /\ Len(copied[r]) = Len(files[r])
         /\ Len(file_configs[r]) = Len(files[r])

\* ------------------------------------------------------------------------
\* C4
\* ------------------------------------------------------------------------
ConfigHasRestartKey(a) ==
  /\ Truthy(a.config)
  /\ "restart_cmd" \in DOMAIN ConfigDisk[a.config.v].v

\* the restart command as the claim resolves it
ClaimedRestartCmd(a) ==
  IF ConfigHasRestartKey(a) THEN ConfigDisk[a.config.v].v.restart_cmd ELSE PyStr(a.RESTART_CMD)

\* C4: the manifest has a restart_cmd line exactly when the resolved restart
\* command is non-empty, the resolved command being the config's restart_cmd
\* value whenever the config has the key (whatever the value) and RESTART_CMD
\* of the environment otherwise.
C4_RestartLineIffResolvedNonEmpty ==
  \A r \in Runs : JustSucceeded(r) =>
    LET m == LinesOf(Manifest(r))
        cmd == ClaimedRestartCmd(args[r])
    IN /\ HasRestartLine(Manifest(r)) <=> Truthy(cmd)
       /\ HasRestartLine(Manifest(r)) => m[Len(m)] = "restart_cmd: '" \o Fmt(cmd) \o "'"

\* ------------------------------------------------------------------------
\* C5
\* ------------------------------------------------------------------------
\* C5: a run that has ended either exited 0 after writing the manifest, or
\* exited 1 after printing a timestamped [ERROR] line as its last output.
C5_ExitZeroOrLoggedError ==
  \A r \in Runs : pc[r] = "exited" =>
    \/ /\ exit_code[r] = 0
       /\ Wrote(r)
    \/ /\ exit_code[r] = 1
       /\ out[r] # <<>>
       /\ out[r][Len(out[r])].level = "ERROR"
       /\ out[r][Len(out[r])].ts

\* ------------------------------------------------------------------------
\* C6
\* ------------------------------------------------------------------------
\* the manifest as a function of one run's inputs and the source files alone
ExpectedConfigs(a) ==
  LET fl == ResolveFiles(a).files
  IN [k \in 1..Len(fl) |->
        FileConfig(fl[k], PathName(fl[k].path.v),
                   WholeFileDigest(SourceTree[fl[k].path.v].bytes), a)]

ExpectedManifest(a) ==
  generate_yaml_config(ExpectedConfigs(a), Version(a), AppName(a),
                       ResolveRestartCmd(ResolveFiles(a).restart_cmd, a.RESTART_CMD))

\* C6: the version.yaml left by a run that has just ended successfully is the
\* manifest its own inputs determine, byte for byte, whatever an earlier run
\* wrote or staged; two successful runs with the same inputs write the same
\* text.
C6_ManifestDependsOnInputsOnly ==
  /\ \A r \in Runs : JustSucceeded(r) =>
       /\ Manifest(r) = ExpectedManifest(args[r])
       /\ Manifest(r) = yaml_content[r]
  /\ (Succeeded(1) /\ Succeeded(2) /\ args[1] = args[2]) => yaml_content[1] = yaml_content[2]

\* the second run replaced a longer manifest of the same app
C6_Witness ==
  /\ Wrote(1) /\ Succeeded(2)
  /\ App(1) = App(2)
  /\ Len(yaml_content[1]) > Len(yaml_content[2])
  /\ Manifest(2) = yaml_content[2]

\* ------------------------------------------------------------------------
\* C7
\* ------------------------------------------------------------------------
\* C7: in the manifest of a run that has just ended successfully, an entry
\* whose spec gave no name is named after the base name of its source path; an
\* entry whose spec gave no target (or an empty one) has the target
\* /usr/local/bin/<the name shown in that entry>; a non-empty target is shown
\* unchanged.
C7_NameAndTargetDefaults ==
  \A r \in Runs : JustSucceeded(r) =>
    \A k \in 1..RawCount(args[r]) :
      LET nameShown == Unquote(EntryLine(Manifest(r), k, 1), "  - name: \"")
          targetShown == Unquote(EntryLine(Manifest(r), k, 4), "    target: \"")
          target == RawTarget(args[r], k)
      IN /\ RawNameOmitted(args[r], k) => nameShown = PathName(RawPath(args[r], k))
         /\ ~Truthy(target) => targetShown = "/usr/local/bin/" \o nameShown
         /\ Truthy(target) => targetShown = target.v

\* an entry with a name of its own, other than the base name, and no target
C7_Witness ==
  \E r \in Runs :
    /\ JustSucceeded(r)
    /\ \E k \in 1..RawCount(args[r]) :
         /\ ~RawNameOmitted(args[r], k)
         /\ ~Truthy(RawTarget(args[r], k))
         /\ Unquote(EntryLine(Manifest(r), k, 1), "  - name: \"") # PathName(RawPath(args[r], k))
         /\ Unquote(EntryLine(Manifest(r), k, 1), "  - name: \"") # ""

\* ------------------------------------------------------------------------
\* C8
\* ------------------------------------------------------------------------
\* the staged paths of the first n specs of run r
StagedOfFirst(r, n) ==
  {StagedPath(App(r), PathName(files[r][k].path.v)) : k \in 1..n}

\* the last of the first n specs of run r staged under the base name of spec k
LastSameBase(r, k, n) ==
  CHOOSE j \in 1..n :
    /\ PathName(files[r][j].path.v) = PathName(files[r][k].path.v)
    /\ \A i \in (j + 1)..n : PathName(files[r][i].path.v) # PathName(files[r][k].path.v)

\* the run ended in failure during input resolution or at one of its specs
AbortedAtSpec(r) == Failed(r) /\ (Len(files[r]) = 0 \/ idx[r] <= Len(files[r]))

\* C8: a run copies its specs in input order; when it has aborted at position
\* i (i = 1 when input resolution failed), exactly the specs before i have
\* been copied, their staged files are on disk with the copied bytes, and no
\* other file of the disk has been created or changed.
C8_StagedInOrderUpToFailure ==
  \A r \in Runs : Latest(r) =>
    /\ Len(copied[r]) <= Len(files[r])
    /\ \A k \in 1..Len(copied[r]) : copied[r][k] = files[r][k].path.v
    /\ Failed(r) => Len(copied[r]) = idx[r] - 1
    /\ AbortedAtSpec(r) =>
         /\ Len(files[r]) = 0 => idx[r] = 1
         /\ \A k \in 1..(idx[r] - 1) :
              LET staged == StagedPath(App(r), PathName(files[r][k].path.v))
              IN /\ Exists(fs, staged)
                 /\ fs[staged].kind = "file"
                 /\ fs[staged].bytes =
                      fs[files[r][LastSameBase(r, k, idx[r] - 1)].path.v].bytes
         /\ \A p \in DOMAIN fs :
              (fs[p].kind = "file" /\ p \notin StagedOfFirst(r, idx[r] - 1)) =>
                (Exists(fs_at_start[r], p) /\ fs_at_start[r][p] = fs[p])

\* a run that failed at its second spec of three, the first one staged
C8_Witness ==
  \E r \in Runs :
    /\ AbortedAtSpec(r) /\ Latest(r)
    /\ Len(files[r]) = 3
    /\ idx[r] = 2
    /\ copied[r] = <<files[r][1].path.v>>
    /\ Exists(fs, StagedPath(App(r), PathName(files[r][1].path.v)))

\* ------------------------------------------------------------------------
\* C9
\* ------------------------------------------------------------------------
BothSucceededSameApp == Succeeded(1) /\ Succeeded(2) /\ App(1) = App(2)
BothWroteSameApp ==
  pc[1] = "exited" /\ pc[2] = "exited" /\ Wrote(1) /\ Wrote(2) /\ App(1) = App(2)
LastWriter == writes[Len(writes)]
FirstWriter == writes[1]

\* the two runs each stage a file of one base name, from sources of different contents
StageSameBaseDifferentContents ==
  \E j \in 1..Len(files[1]) : \E k \in 1..Len(files[2]) :
    /\ PathName(files[1][j].path.v) = PathName(files[2][k].path.v)
    /\ SourceTree[files[1][j].path.v].bytes # SourceTree[files[2][k].path.v].bytes

\* no two specs of run r share a base name: the run does not overwrite its own staged files
DistinctBaseNames(r) ==
  \A j, k \in 1..Len(files[r]) :
    j # k => PathName(files[r][j].path.v) # PathName(files[r][k].path.v)

\* the first writer's write fell between the last writer's opening of version.yaml
\* and the last writer's write
WroteAfterLastOpened == \A i \in 1..Len(writes_at_open[LastWriter]) :
                          writes_at_open[LastWriter][i] # FirstWriter

\* C9 as claimed: after two successful runs on one app that stage a file of the
\* same base name with different contents, version.yaml is the manifest of the
\* run that wrote last.
C9_LastWriterWins ==
  (BothSucceededSameApp /\ StageSameBaseDifferentContents) =>
    Manifest(1) = yaml_content[LastWriter]

\* C9 as amended: after two runs have written the version.yaml of one app, the
\* file is exactly the manifest of the run that wrote last, except when the
\* other run's write fell between the last writer's opening of the file and its
\* write and the other manifest is the longer one: the file is then the last
\* writer's whole manifest followed by the other manifest from that byte on.
C9_LastWriterWinsUnlessTorn ==
  BothWroteSameApp =>
    LET m == Manifest(1)
        y == yaml_content[LastWriter]
        z == yaml_content[FirstWriter]
    IN IF WroteAfterLastOpened /\ Len(z) > Len(y)
         THEN m = y \o SubSeq(z, Len(y) + 1, Len(z)) /\ m # y
         ELSE m = y

\* two racing runs, neither of which stages one base name twice, both
\* succeeded; version.yaml is the last writer's manifest, and its sha256 for a
\* file both runs staged is not the digest of the bytes in the staged file
C9_Witness ==
  /\ BothSucceededSameApp
  /\ DistinctBaseNames(1) /\ DistinctBaseNames(2)
  /\ StageSameBaseDifferentContents
  /\ Manifest(1) = yaml_content[LastWriter]
  /\ \E k \in 1..Len(files[LastWriter]) :
       LET staged == StagedPath(App(1), PathName(files[LastWriter][k].path.v))
       IN /\ EntryLine(Manifest(1), k, 3) # Quoted("    sha256: \"", WholeFileDigest(fs[staged].bytes))
          /\ \E j \in 1..Len(files[FirstWriter]) :
               /\ PathName(files[FirstWriter][j].path.v) = PathName(files[LastWriter][k].path.v)
               /\ files[FirstWriter][j].path.v # files[LastWriter][k].path.v

\* ------------------------------------------------------------------------
\* C10
\* ------------------------------------------------------------------------
Validated(r) == pc[r] # "main" /\ Truthy(AppName(args[r])) /\ Truthy(Version(args[r]))

\* the files array of the config named on the command line, empty if it cannot be had
ConfigFilesOrNone(a) == LoadConfig(a.config.v).files

AtLeastOneFileError(r) ==
  /\ Failed(r)
  /\ out[r][Len(out[r])] = Log("ERROR", "At least one file is required. Use --file or --config.")

\* C10 as claimed: with --config on the command line the resolved list is the
\* config's files array and no --file flag is used (an empty array fails with
\* the 'at least one file' error); the flags are used only without --config.
C10_ConfigGivenIgnoresFlags ==
  \A r \in Runs : Validated(r) =>
    /\ args[r].config.t = "str" =>
         /\ files[r] = ConfigFilesOrNone(args[r])
         /\ (LoadConfig(args[r].config.v).err = "" /\ Len(ConfigFilesOrNone(args[r])) = 0)
              => AtLeastOneFileError(r)
    /\ args[r].config.t = "none" => files[r] = ParseFlags(args[r].files)

\* C10 as amended: with a non-empty --config value the resolved list is the
\* config's files array and no --file flag is used (an empty array fails with
\* the 'at least one file' error); the flags are used when --config is absent
\* or is the empty string.
C10_NonEmptyConfigIgnoresFlags ==
  \A r \in Runs : Validated(r) =>
    /\ Truthy(args[r].config) =>
         /\ files[r] = ConfigFilesOrNone(args[r])
         /\ (LoadConfig(args[r].config.v).err = "" /\ Len(ConfigFilesOrNone(args[r])) = 0)
              => AtLeastOneFileError(r)
    /\ ~Truthy(args[r].config) => files[r] = ParseFlags(args[r].files)

\* a config with an empty files array and a --file flag beside it: the run failed
C10_Witness ==
  \E r \in Runs :
    /\ Validated(r)
    /\ Truthy(args[r].config)
    /\ args[r].files # <<>>
    /\ LoadConfig(args[r].config.v).err = ""
    /\ Len(ConfigFilesOrNone(args[r])) = 0
    /\ AtLeastOneFileError(r)

====
